---- MODULE Spec2Model ----
(***************************************************************************)
(* A model of the opendkim Go binding (src/dkim.go): the Dkim session      *)
(* wrapper (Header, Eoh, Body, Eom, GetSigHdr, GetSignature, Destroy, the  *)
(* Sign/Verify helpers) over the DKIM engine it forwards to.  The wrapper  *)
(* is translated from the Go source.  The engine behind the C.dkim_* calls *)
(* is not part of the source files; it is modelled from the written        *)
(* specification (session state machine, canonicalizer, signer, verifier). *)
(*                                                                         *)
(* Abstractions: a body is a sequence of tokens "a", " " and CRLF (a line  *)
(* ending is one token); a digest is the canonical byte sequence itself    *)
(* (an injective hash); an asymmetric signature is the pair of the signing *)
(* key's identity and the signed data.                                     *)
(***************************************************************************)
EXTENDS Integers, Sequences, FiniteSets, TLC

\* ------------------------------------------------------------------ bounds
MaxHdrs == 2
MaxBody == 2
MaxChunk == 2
MaxCanonBody == 4
MaxCanonChunk == 2

\* ------------------------------------------------------- program constants
CanonSIMPLE == 0
CanonRELAXED == 1
SignRSASHA1 == 0
StatusOK == 0
StatusBADSIG == 1
StatusNOSIG == 2
StatusNOKEY == 3
StatusSYNTAX == 5
StatusNORESOURCE == 6
StatusINTERNAL == 7
StatusREVOKED == 8
StatusINVALID == 9
StatusKEYFAIL == 11
SigflagIGNORE == 1
SigflagPROCESSED == 2
SigflagPASSED_swapped == SigflagPROCESSED
SigflagPASSED == 4
SigflagTESTKEY == 8
SigflagNOSUBDOMAIN == 16
SigflagKEYLOADED == 32
WholeBody == -1

\* -------------------------------------------------------------- data types
CRLF == "CRLF"
SP == " "
TAB == "TAB"
WSP == {SP, TAB}
Byte == {"a", SP, CRLF}

RECURSIVE SeqsUpTo(_, _)
SeqsUpTo(S, n) ==
  IF n = 0 THEN {<<>>}
  ELSE LET shorter == SeqsUpTo(S, n - 1)
       IN shorter \cup {Append(q, x) : q \in {r \in shorter : Len(r) = n - 1}, x \in S}

Bodies == SeqsUpTo(Byte, MaxBody)
Chunks == SeqsUpTo(Byte, MaxChunk)

\* A header line "Name: value": the field name, gap the whitespace between
\* the name and the colon, val the bytes after the colon (words, spaces,
\* tabs and folds), eol the line terminator the line came with.  tags holds
\* the tag=value list of a DKIM-Signature line, in wire order (empty for
\* every other line).
Line(n, gap, v, eol) == [name |-> n, gap |-> gap, val |-> v, eol |-> eol, tags |-> <<>>]
Hdr(n, v) == Line(n, <<>>, <<v>>, <<>>)
SigName == "DKIM-Signature"
SigLine(tags) == [Line(SigName, <<>>, <<>>, <<>>) EXCEPT !.tags = tags]
\* The Go string "": Header("") is a call the wrapper can receive.
EmptyLine == Line("", <<>>, <<>>, <<>>)
\* A non-empty line that is no header field (no colon).
BadLine == Line("", <<>>, <<"junk">>, <<>>)
MsgLines == {Hdr("From", "x"), Hdr("To", "y"), Hdr("To", "z")}
\* A fold: a line break followed by whitespace, inside a header value.
FOLD == "FOLD"
\* The lines handed to the session whose canonical forms are looked at.
CanonLines ==
  {Hdr("From", "x"),
   Line("Subject", <<>>, <<SP, SP, "Hello", SP, SP, SP, "World", SP, SP>>, <<CRLF>>),
   Line("To", <<SP, TAB>>, <<TAB, "y", FOLD, TAB, "z">>, <<>>)}

\* ----------------------------------------------- engine: body canonicalizer
\* The accumulator of one session's body: out is the canonical text handed to
\* the digest so far, crlf the line endings held back as candidate trailing
\* blank lines, sp whether whitespace is held back (relaxed mode).
RECURSIVE Rep(_, _)
Rep(x, n) == IF n = 0 THEN <<>> ELSE <<x>> \o Rep(x, n - 1)

Take(q, n) == IF n < 0 \/ Len(q) <= n THEN q ELSE SubSeq(q, 1, n)

\* A canonicalizer that takes the space for the only whitespace.
BodyByte_sp(bc, limit, acc, c) ==
  IF c = CRLF
    THEN [acc EXCEPT !.crlf = @ + 1, !.sp = FALSE]
  ELSE IF bc = CanonRELAXED /\ c = SP
    THEN [acc EXCEPT !.sp = TRUE]
  ELSE [out  |-> Take(acc.out \o Rep(CRLF, acc.crlf)
                        \o (IF acc.sp THEN <<SP>> ELSE <<>>) \o <<c>>, limit),
        crlf |-> 0,
        sp   |-> FALSE]

BodyByte(bc, limit, acc, c) ==
  IF c = CRLF
    THEN [acc EXCEPT !.crlf = @ + 1, !.sp = FALSE]
  ELSE IF bc = CanonRELAXED /\ c \in WSP
    THEN [acc EXCEPT !.sp = TRUE]
  ELSE [out  |-> Take(acc.out \o Rep(CRLF, acc.crlf)
                        \o (IF acc.sp THEN <<SP>> ELSE <<>>) \o <<c>>, limit),
        crlf |-> 0,
        sp   |-> FALSE]

RECURSIVE BodyChunk(_, _, _, _)
BodyChunk(bc, limit, acc, data) ==
  IF data = <<>> THEN acc
  ELSE BodyChunk(bc, limit, BodyByte(bc, limit, acc, Head(data)), Tail(data))

\* End of message: the held-back line endings and whitespace are dropped; a
\* non-empty canonical body ends with one CRLF.
BodyFinal(limit, acc) ==
  IF acc.out = <<>> THEN <<>> ELSE Take(acc.out \o <<CRLF>>, limit)

EmptyAcc == [out |-> <<>>, crlf |-> 0, sp |-> FALSE]

\* The canonical form of a whole body (one chunk, then end of message).
CanonBody(bc, limit, body) == BodyFinal(limit, BodyChunk(bc, limit, EmptyAcc, body))

\* The digest primitive (a black box of the engine): injective.
Digest(alg, data) == <<alg, data>>

\* --------------------------------------------- engine: header canonicalizer
Lower(n) ==
  CASE n = "From" -> "from"
    [] n = "To" -> "to"
    [] n = "Subject" -> "subject"
    [] n = SigName -> "dkim-signature"
    [] n = "Dkim-Signature" -> "dkim-signature"
    [] OTHER -> n

\* The whitespace of a header value; a fold unfolds to whitespace.
HeaderWSP == WSP \cup {FOLD}

\* A header value with its whitespace runs made one space each and none at
\* its ends: out is the value so far, sp whether whitespace is pending.
RECURSIVE RelaxValue(_, _, _)
RelaxValue(val, out, sp) ==
  IF val = <<>> THEN out
  ELSE IF Head(val) \in HeaderWSP THEN RelaxValue(Tail(val), out, out # <<>>)
  ELSE RelaxValue(Tail(val), out \o (IF sp THEN <<SP>> ELSE <<>>) \o <<Head(val)>>, FALSE)

\* A canonicalizer that lowercases the field name and no more.
CanonHeader_name(hc, line) ==
  IF hc = CanonRELAXED THEN [line EXCEPT !.name = Lower(line.name)] ELSE line

CanonHeader(hc, line) ==
  IF hc = CanonRELAXED
    THEN [line EXCEPT !.name = Lower(line.name), !.gap = <<>>,
                      !.val = RelaxValue(line.val, <<>>, FALSE), !.eol = <<CRLF>>]
  ELSE [line EXCEPT !.eol = <<CRLF>>]

\* ------------------------------------------- engine: signature header codec
Domain == "erikk.org"
Selector == "odktest"
GoodKey == "key1"
OtherKey == "key2"
\* A signing key of 8192 bits; the other keys have 2048.
BigKey == "key3"
KeyBits(key) == IF key = BigKey THEN 8192 ELSE 2048
NoB == [key |-> "", data |-> <<>>]

\* Serialization, in the fixed tag order.
Serialize(alg, hc, bc, h, limit, bh, b) ==
  << <<"v", 1>>, <<"a", alg>>, <<"c", <<hc, bc>> >>, <<"d", Domain>>,
     <<"s", Selector>>, <<"t", 0>>, <<"h", h>> >>
  \o (IF limit >= 0 THEN << <<"l", limit>> >> ELSE <<>>)
  \o << <<"bh", bh>>, <<"b", b>> >>

HasTag(tags, t) == \E i \in 1..Len(tags) : tags[i][1] = t
TagVal(tags, t) == tags[CHOOSE i \in 1..Len(tags) : tags[i][1] = t][2]
MandatoryTags == {"v", "a", "d", "s", "h", "bh", "b"}
SigSyntaxOK(tags) == \A t \in MandatoryTags : HasTag(tags, t)

\* The length in bytes of the serialized header value: every tag as
\* "name=value; ", a signature value in base64 of the key's length.
B64Len(n) == 4 * ((n + 2) \div 3)
NameBytes(n) == IF n = "To" THEN 2 ELSE IF n = "From" THEN 4 ELSE IF n = "Subject" THEN 7 ELSE 14

RECURSIVE ListBytes(_)
ListBytes(h) == IF h = <<>> THEN 0 ELSE NameBytes(Head(h)) + 1 + ListBytes(Tail(h))

ValBytes(tv) ==
  CASE tv[1] = "b" -> IF tv[2].key = "" THEN 0 ELSE B64Len(KeyBits(tv[2].key) \div 8)
    [] tv[1] = "bh" -> B64Len(20)
    [] tv[1] = "h" -> ListBytes(tv[2])
    [] tv[1] = "c" -> 15
    [] tv[1] \in {"d", "s", "t", "a"} -> 10
    [] OTHER -> 1

RECURSIVE SigHdrBytes(_)
SigHdrBytes(tags) ==
  IF tags = <<>> THEN 0
  ELSE 2 + ValBytes(Head(tags)) + 2 + SigHdrBytes(Tail(tags))

\* The signature header with its signature value emptied.
EmptyB(tags) ==
  [i \in 1..Len(tags) |-> IF tags[i][1] = "b" THEN <<"b", NoB>> ELSE tags[i]]

\* ------------------------------------------------- engine: header hash input
Names(hdrs) == [i \in 1..Len(hdrs) |-> hdrs[i].name]

Count(q, x) == Cardinality({i \in 1..Len(q) : q[i] = x})

\* The k-th line named n counted from the bottom of hdrs, as a sequence of
\* zero or one lines.
FromBottom(hdrs, n, k) ==
  LET idx == {i \in 1..Len(hdrs) :
                /\ Lower(hdrs[i].name) = Lower(n)
                /\ Cardinality({j \in i..Len(hdrs) : Lower(hdrs[j].name) = Lower(n)}) = k}
  IN IF idx = {} THEN <<>> ELSE <<hdrs[CHOOSE i \in idx : TRUE]>>

RECURSIVE SelectHdrs(_, _, _)
SelectHdrs(hdrs, h, i) ==
  IF i > Len(h) THEN <<>>
  ELSE FromBottom(hdrs, h[i], Count(SubSeq(h, 1, i - 1), h[i]) + 1)
       \o SelectHdrs(hdrs, h, i + 1)

\* The signed header lines, canonicalized, then the signature header line
\* itself with its signature value emptied.
HeaderHashInput(hc, hdrs, sigline) ==
  LET sel == SelectHdrs(hdrs, TagVal(sigline.tags, "h"), 1)
  IN [i \in 1..Len(sel) |-> CanonHeader(hc, sel[i])]
     \o <<CanonHeader(hc, [sigline EXCEPT !.tags = EmptyB(@)])>>

\* The asymmetric primitives (black boxes of the engine).
SignPrim(key, digest) == [key |-> key, data |-> digest]
VerifyPrim(key, digest, b) == b.key = key /\ b.data = digest

\* ------------------------------------------------- engine: session handle
\* What dkim_sign / dkim_verify return: a session in state Created.
NewHandle(mode, hc, bc, limit) ==
  [mode |-> mode, state |-> "Created", hc |-> hc, bc |-> bc,
   alg |-> SignRSASHA1, limit |-> limit, hdrs |-> <<>>, acc |-> EmptyAcc,
   bh |-> <<>>, bhres |-> "None", sig |-> <<>>, flags |-> {},
   hassig |-> FALSE, res |-> "none", lookups |-> 0, key |-> GoodKey]

Result(e, stat) == [e |-> e, stat |-> stat, panic |-> FALSE]

IsSig(line) == Lower(line.name) = Lower(SigName)
SigLines(hdrs) == SelectSeq(hdrs, IsSig)

dkim_header(e, line) ==
  IF e.state \notin {"Created", "CollectingHeaders"} THEN Result(e, StatusINVALID)
  ELSE IF line.name = "" THEN Result([e EXCEPT !.state = "Error"], StatusSYNTAX)
  ELSE Result([e EXCEPT !.state = "CollectingHeaders", !.hdrs = Append(@, line)],
              StatusOK)

\* End of headers freezes the header set.  A verifier takes the body
\* canonicalization and the body-length limit from the signature header.
dkim_eoh(e) ==
  IF e.state # "CollectingHeaders" THEN Result(e, StatusINVALID)
  ELSE IF e.mode = "verify" /\ SigLines(e.hdrs) # <<>>
    THEN LET tags == SigLines(e.hdrs)[1].tags
         IN Result([e EXCEPT !.state = "BodyPhase",
                             !.hc = IF HasTag(tags, "c") THEN TagVal(tags, "c")[1] ELSE @,
                             !.bc = IF HasTag(tags, "c") THEN TagVal(tags, "c")[2] ELSE @,
                             !.limit = IF HasTag(tags, "l") THEN TagVal(tags, "l") ELSE @],
                   StatusOK)
  ELSE Result([e EXCEPT !.state = "BodyPhase"], StatusOK)

dkim_body(e, data) ==
  IF e.state # "BodyPhase" THEN Result(e, StatusINVALID)
  ELSE Result([e EXCEPT !.acc = BodyChunk(e.bc, e.limit, @, data)], StatusOK)

\* The signer at end of message.
eom_sign(e) ==
  IF e.hdrs = <<>> THEN Result([e EXCEPT !.state = "Error"], StatusINTERNAL)
  ELSE LET bh == Digest(e.alg, BodyFinal(e.limit, e.acc))
           unsigned == Serialize(e.alg, e.hc, e.bc, Names(e.hdrs), e.limit, bh, NoB)
           b == SignPrim(e.key, Digest(e.alg, HeaderHashInput(e.hc, e.hdrs, SigLine(unsigned))))
       IN Result([e EXCEPT !.state = "Finalized", !.bh = bh,
                           !.sig = Serialize(e.alg, e.hc, e.bc, Names(e.hdrs),
                                             e.limit, bh, b)],
                 StatusOK)

\* What the key resolver can answer for selector and domain.
Resolutions == {"good", "goodtest", "other", "NOKEY", "KEYFAIL", "REVOKED", "TIMEOUT"}
ResolvedKey(res) == IF res = "other" THEN OtherKey ELSE GoodKey
ResolverStatus(res) ==
  CASE res = "NOKEY" -> StatusNOKEY
    [] res = "KEYFAIL" -> StatusKEYFAIL
    [] res = "REVOKED" -> StatusREVOKED
    [] res = "TIMEOUT" -> StatusNORESOURCE
    [] OTHER -> StatusOK

\* The verifier's flags once a key was obtained.
OutcomeFlags(sigok, bhres, res) ==
  {SigflagKEYLOADED, SigflagPROCESSED}
  \cup (IF res = "goodtest" THEN {SigflagTESTKEY} ELSE {})
  \cup (IF sigok /\ bhres = "Match" THEN {SigflagPASSED} ELSE {})

\* The verifier at end of message; res is the resolver's answer, used only
\* when a well-formed signature header is present.  lookups counts the
\* queries made to the resolver.
eom_verify(e, res) ==
  IF SigLines(e.hdrs) = <<>>
    THEN Result([e EXCEPT !.state = "Finalized"], StatusNOSIG)
  ELSE LET sigline == SigLines(e.hdrs)[1]
           tags == sigline.tags
       IN IF ~SigSyntaxOK(tags)
            THEN Result([e EXCEPT !.state = "Error"], StatusSYNTAX)
          ELSE LET bh == Digest(TagVal(tags, "a"), BodyFinal(e.limit, e.acc))
                   bhres == IF bh = TagVal(tags, "bh") THEN "Match" ELSE "Mismatch"
                   sigok == VerifyPrim(ResolvedKey(res),
                                       Digest(TagVal(tags, "a"),
                                              HeaderHashInput(e.hc, e.hdrs, sigline)),
                                       TagVal(tags, "b"))
                   seen == [e EXCEPT !.bh = bh, !.bhres = bhres, !.hassig = TRUE,
                                     !.res = res, !.lookups = @ + 1]
               IN IF ResolverStatus(res) # StatusOK
                    THEN Result([seen EXCEPT !.state = "Error"], ResolverStatus(res))
                  ELSE Result([seen EXCEPT !.state = "Finalized",
                                           !.flags = OutcomeFlags(sigok, bhres, res)],
                              StatusOK)

dkim_eom(e, res) ==
  IF e.state # "BodyPhase" THEN Result(e, StatusINVALID)
  ELSE IF e.mode = "sign" THEN eom_sign(e)
  ELSE eom_verify(e, res)

\* dkim_getsighdr writes the header value and a terminating zero into the
\* caller's buffer of buflen bytes, or nothing when it does not fit.
dkim_getsighdr(e, buflen) ==
  IF e.mode # "sign" \/ e.state # "Finalized"
    THEN [text |-> <<>>, stat |-> StatusINVALID]
  ELSE IF SigHdrBytes(e.sig) + 1 > buflen
    THEN [text |-> <<>>, stat |-> StatusNORESOURCE]
  ELSE [text |-> e.sig, stat |-> StatusOK]

\* dkim_getsignature: the signature object, or none.
dkim_getsignature(e) == e.hassig
dkim_sig_getflags(e) == e.flags

\* ---------------------------------------------------------- the Go wrapper
\* &data[0] on an empty slice: the Go runtime panics before the engine is
\* entered, and the call returns nothing.
Panic(e) == [e |-> e, stat |-> StatusOK, panic |-> TRUE]

Header(e, line) == IF line = EmptyLine THEN Panic(e) ELSE dkim_header(e, line)

\* An Eoh that drops the engine's status.
Eoh_ignore(e) == [dkim_eoh(e) EXCEPT !.stat = StatusOK]

Eoh(e) == dkim_eoh(e)

\* Body forwarding to a handle whose accumulated body was forgotten.
Body_fresh(e, data) ==
  IF data = <<>> THEN Panic(e) ELSE dkim_body([e EXCEPT !.acc = EmptyAcc], data)

\* A Body that hands the engine a length of one.
Body_one(e, data) == IF data = <<>> THEN Panic(e) ELSE dkim_body(e, <<Head(data)>>)

Body(e, data) == IF data = <<>> THEN Panic(e) ELSE dkim_body(e, data)

\* An Eom that puts the session back when the resolver was not available.
Eom_keep(e, res) ==
  LET r == dkim_eom(e, res)
  IN IF r.stat = StatusNORESOURCE THEN Result(e, r.stat) ELSE r

\* An Eom that reports a verification that did not pass as a failure.
Eom_badsig(e, res) ==
  LET r == dkim_eom(e, res)
  IN IF r.stat = StatusOK /\ r.e.mode = "verify" /\ SigflagPASSED \notin r.e.flags
       THEN [r EXCEPT !.stat = StatusBADSIG]
     ELSE r

Eom(e, res) == dkim_eom(e, res)

\* GetSigHdr's buffer: make([]byte, 1024).
SigHdrBuf == 1024

\* A GetSigHdr that cuts the text one tag short.
GetSigHdr_short(e) ==
  LET r == dkim_getsighdr(e, SigHdrBuf)
  IN IF r.stat # StatusOK THEN [text |-> <<>>, stat |-> r.stat]
     ELSE [text |-> SubSeq(r.text, 1, Len(r.text) - 1), stat |-> r.stat]

GetSigHdr(e) ==
  LET r == dkim_getsighdr(e, SigHdrBuf)
  IN IF r.stat # StatusOK THEN [text |-> <<>>, stat |-> r.stat] ELSE r

\* A GetSignature without the nil test.
GetSignature_nonil(e) == "sig"

\* GetSignature: nil when the engine has no signature object.
GetSignature(e) == IF ~dkim_getsignature(e) THEN "nil" ELSE "sig"

Flags(e) == dkim_sig_getflags(e)

\* net/mail spells a header key in canonical MIME form.
MIMEKey(n) == IF n = SigName THEN "Dkim-Signature" ELSE n

NameSet(hdrs) == {hdrs[i].name : i \in 1..Len(hdrs)}

\* The orders in which ranging over the header map can visit its keys.
KeyOrders(hdrs) ==
  {o \in SeqsUpTo(NameSet(hdrs), Cardinality(NameSet(hdrs))) :
     /\ Len(o) = Cardinality(NameSet(hdrs))
     /\ \A i, j \in 1..Len(o) : i # j => o[i] # o[j]}

\* The lines process hands to Header: key by key, each key's values in the
\* order of the message.
RECURSIVE FeedOrder(_, _)
FeedOrder(hdrs, order) ==
  IF order = <<>> THEN <<>>
  ELSE LET k == Head(order)
           HasKey(l) == l.name = k
           vv == SelectSeq(hdrs, HasKey)
       IN [i \in 1..Len(vv) |-> [vv[i] EXCEPT !.name = MIMEKey(k)]]
          \o FeedOrder(hdrs, Tail(order))

\* The header loop of process: stops at the first status that is not OK.
RECURSIVE FeedHeaders(_, _, _)
FeedHeaders(e, lines, written) ==
  IF lines = <<>> THEN [e |-> e, stat |-> StatusOK, panic |-> FALSE, hdr |-> written]
  ELSE LET r == Header(e, Head(lines))
       IN IF r.panic \/ r.stat # StatusOK
            THEN [e |-> r.e, stat |-> r.stat, panic |-> r.panic, hdr |-> written]
          ELSE FeedHeaders(r.e, Tail(lines), Append(written, Head(lines)))

NoMsg == [nil |-> TRUE, hdrs |-> <<>>, body |-> <<>>]

\* process: the result carries the session, the status, the header buffer,
\* the body buffer and the step that produced the status.
Processed(e, stat, panic, hdr, body, step) ==
  [e |-> e, stat |-> stat, panic |-> panic, hdr |-> hdr, body |-> body, step |-> step]

process(e, r, order, res) ==
  IF r.bad THEN Processed(e, StatusINTERNAL, FALSE, <<>>, <<>>, "read")
  ELSE LET h == FeedHeaders(e, FeedOrder(r.hdrs, order), <<>>)
       IN IF h.panic \/ h.stat # StatusOK
            THEN Processed(h.e, h.stat, h.panic, h.hdr, <<>>, "header")
          ELSE LET eo == Eoh(h.e)
               IN IF eo.stat # StatusOK
                    THEN Processed(eo.e, eo.stat, FALSE, h.hdr, <<>>, "eoh")
                  ELSE LET b == Body(eo.e, r.body)
                       IN IF b.panic \/ b.stat # StatusOK
                            THEN Processed(b.e, b.stat, b.panic, h.hdr, r.body, "body")
                          ELSE LET m == Eom(b.e, res)
                               IN Processed(m.e, m.stat, FALSE, h.hdr, r.body, "eom")

\* A Sign that copies the body from a buffer already read to its end.
Sign_nobody(e, r, order, res) ==
  LET p == process(e, r, order, res)
  IN IF p.panic \/ p.stat # StatusOK
       THEN [e |-> p.e, stat |-> p.stat, panic |-> p.panic, step |-> p.step,
             out |-> NoMsg]
     ELSE LET g == GetSigHdr(p.e)
          IN IF g.stat # StatusOK
               THEN [e |-> p.e, stat |-> g.stat, panic |-> FALSE, step |-> "sighdr",
                     out |-> NoMsg]
             ELSE [e |-> p.e, stat |-> StatusOK, panic |-> FALSE, step |-> p.step,
                   out |-> [nil |-> FALSE,
                            hdrs |-> Append(p.hdr, SigLine(g.text)),
                            body |-> <<>>]]

\* Sign: the signed message, or nothing and the failing status.
Sign(e, r, order, res) ==
  LET p == process(e, r, order, res)
  IN IF p.panic \/ p.stat # StatusOK
       THEN [e |-> p.e, stat |-> p.stat, panic |-> p.panic, step |-> p.step,
             out |-> NoMsg]
     ELSE LET g == GetSigHdr(p.e)
          IN IF g.stat # StatusOK
               THEN [e |-> p.e, stat |-> g.stat, panic |-> FALSE, step |-> "sighdr",
                     out |-> NoMsg]
             ELSE [e |-> p.e, stat |-> StatusOK, panic |-> FALSE, step |-> p.step,
                   out |-> [nil |-> FALSE,
                            hdrs |-> Append(p.hdr, SigLine(g.text)),
                            body |-> p.body]]

Verify(e, r, order, res) ==
  LET p == process(e, r, order, res)
  IN [e |-> p.e, stat |-> p.stat, panic |-> p.panic, step |-> p.step, out |-> NoMsg]

\* ------------------------------------------------------------------ state
Sessions == {"s", "v"}
Threads == {1, 2}

VARIABLES
  d,       \* d[id]: the Dkim struct's handle pointer, "set" or "nil"
  eng,     \* eng[id]: the engine session behind the handle
  raw,     \* raw[id]: the body bytes the session accepted so far (history)
  ret,     \* what the last call returned
  sighdr,  \* the text the caller got from the signer's GetSigHdr
  frees,   \* frees[id]: how many times dkim_free released the handle
  active,  \* which session the caller drives ("s", "v", or "rt": s then v)
  lib,     \* the Lib struct: its handle pointer and the options behind it
  pc,      \* pc[t]: where thread t is inside a call (concurrent callers)
  cur,     \* cur[t]: the call thread t is in
  mtx      \* the holder of Dkim.mtx, 0 when unlocked

vars == <<d, eng, raw, ret, sighdr, frees, active, lib, pc, cur, mtx>>

\* The message argument kept with the result of a call that takes none.
NoArg == [bad |-> FALSE, hdrs |-> <<>>, body |-> <<>>]

\* op is the call, step the step of it that produced the status (for a
\* helper: read, header, eoh, body, eom or sighdr), arg the message a helper
\* was called with.
Returned(o, step, stat, panic, text, out) ==
  [op |-> o, step |-> step, stat |-> stat, panic |-> panic, text |-> text, out |-> out,
   arg |-> NoArg]

Modes == {CanonSIMPLE, CanonRELAXED}

GetOpt == 0
SetOpt == 1

\* The values an option of the library is given.
DefaultOpt == "default"
OptValues == {DefaultOpt, "other"}

\* Init(): a library handle with the options dkim_init gives it.
LibInit == [lib |-> "set", opts |-> DefaultOpt]

\* lib.NewSigner and lib.NewVerifier: both sessions exist from the start.
NewSigner_off(hc, bc, limit) == NewHandle("sign", hc, bc, limit + 1)

NewSigner(hc, bc, limit) == NewHandle("sign", hc, bc, limit)

\* NewSigner with a secret of the caller's choice.
NewSignerWith(secret, hc, bc, limit) == [NewSigner(hc, bc, limit) EXCEPT !.key = secret]
NewVerifier == NewHandle("verify", CanonSIMPLE, CanonSIMPLE, WholeBody)

\* limits: the values of bytesToSign the signer may be created with, keys:
\* the secrets.
InitGeneral(who, limits, keys) ==
  /\ \E hc \in Modes, bc \in Modes, limit \in limits, secret \in keys :
       eng = [id \in Sessions |->
                IF id = "s" THEN NewSignerWith(secret, hc, bc, limit) ELSE NewVerifier]
  /\ d = [id \in Sessions |-> "set"]
  /\ raw = [id \in Sessions |-> <<>>]
  /\ ret = Returned("none", "none", StatusOK, FALSE, <<>>, NoMsg)
  /\ sighdr = <<>>
  /\ frees = [id \in Sessions |-> 0]
  /\ active \in who
  /\ lib = LibInit
  /\ pc = [t \in Threads |-> "idle"]
  /\ cur = [t \in Threads |-> "none"]
  /\ mtx = 0

InitLimited(who, limits) == InitGeneral(who, limits, {GoodKey})

InitWith(who) == InitLimited(who, {WholeBody})

HdrBound(id) == IF id = "v" THEN MaxHdrs + 1 ELSE MaxHdrs

Collecting(e) == e.state \in {"Created", "CollectingHeaders"}

\* ------------------------------------------------- calls of a single caller
DoHeader(id, line) ==
  /\ d[id] = "set"
  /\ Collecting(eng[id]) => Len(eng[id].hdrs) < HdrBound(id)
  /\ LET r == Header(eng[id], line)
     IN /\ eng' = [eng EXCEPT ![id] = r.e]
        /\ ret' = Returned("Header", "header", r.stat, r.panic, <<>>, NoMsg)
  /\ UNCHANGED <<d, raw, sighdr, frees, active, lib, pc, cur, mtx>>

DoEoh(id) ==
  /\ d[id] = "set"
  /\ LET r == Eoh(eng[id])
     IN /\ eng' = [eng EXCEPT ![id] = r.e]
        /\ ret' = Returned("Eoh", "eoh", r.stat, r.panic, <<>>, NoMsg)
  /\ UNCHANGED <<d, raw, sighdr, frees, active, lib, pc, cur, mtx>>

BodyStep(id, data) ==
  /\ d[id] = "set"
  /\ LET r == Body(eng[id], data)
     IN /\ eng' = [eng EXCEPT ![id] = r.e]
        /\ ret' = Returned("Body", "body", r.stat, r.panic, <<>>, NoMsg)
        /\ raw' = IF ~r.panic /\ r.stat = StatusOK
                    THEN [raw EXCEPT ![id] = @ \o data] ELSE raw
  /\ UNCHANGED <<d, sighdr, frees, active, lib, pc, cur, mtx>>

DoBody(id, data) ==
  /\ eng[id].state = "BodyPhase" => Len(raw[id]) + Len(data) <= MaxBody
  /\ BodyStep(id, data)

DoEom(id, res) ==
  /\ d[id] = "set"
  /\ LET r == Eom(eng[id], res)
     IN /\ eng' = [eng EXCEPT ![id] = r.e]
        /\ ret' = Returned("Eom", "eom", r.stat, r.panic, <<>>, NoMsg)
  /\ UNCHANGED <<d, raw, sighdr, frees, active, lib, pc, cur, mtx>>

DoGetSigHdr(id) ==
  /\ d[id] = "set"
  /\ LET g == GetSigHdr(eng[id])
     IN /\ ret' = Returned("GetSigHdr", "sighdr", g.stat, FALSE, g.text, NoMsg)
        /\ sighdr' = IF id = "s" /\ g.stat = StatusOK THEN g.text ELSE sighdr
  /\ UNCHANGED <<d, eng, raw, frees, active, lib, pc, cur, mtx>>

\* Destroy by a single caller: lock, test, free, clear, unlock in one step.
\* free is the status dkim_free returns.
\* A Destroy that clears the pointer whatever dkim_free returned.
DestroyStep_clear(id, free) ==
  IF d[id] = "nil"
    THEN /\ ret' = Returned("Destroy", "nil", StatusOK, FALSE, <<>>, NoMsg)
         /\ UNCHANGED <<d, frees>>
  ELSE /\ ret' = Returned("Destroy", "free", free, FALSE, <<>>, NoMsg)
       /\ d' = [d EXCEPT ![id] = "nil"]
       /\ frees' = IF free = StatusOK THEN [frees EXCEPT ![id] = @ + 1] ELSE frees

DestroyStep(id, free) ==
  IF d[id] = "nil"
    THEN /\ ret' = Returned("Destroy", "nil", StatusOK, FALSE, <<>>, NoMsg)
         /\ UNCHANGED <<d, frees>>
  ELSE IF free # StatusOK
    THEN /\ ret' = Returned("Destroy", "free", free, FALSE, <<>>, NoMsg)
         /\ UNCHANGED <<d, frees>>
  ELSE /\ ret' = Returned("Destroy", "free", StatusOK, FALSE, <<>>, NoMsg)
       /\ d' = [d EXCEPT ![id] = "nil"]
       /\ frees' = [frees EXCEPT ![id] = @ + 1]

DoDestroy(id, free) ==
  /\ mtx = 0
  /\ DestroyStep(id, free)
  /\ UNCHANGED <<eng, raw, sighdr, active, lib, pc, cur, mtx>>

\* The Sign and Verify helpers, called on a session that holds no header yet.
HelperStep(id, o, msg, r) ==
  /\ eng' = [eng EXCEPT ![id] = r.e]
  /\ ret' = [Returned(o, r.step, r.stat, r.panic, <<>>, r.out) EXCEPT !.arg = msg]
  /\ UNCHANGED <<d, sighdr, frees, active, lib, pc, cur, mtx>>

DoSign(id, r, order, res) ==
  /\ d[id] = "set"
  /\ eng[id].hdrs = <<>>
  /\ HelperStep(id, "Sign", r, Sign(eng[id], r, order, res))
  /\ raw' = IF Sign(eng[id], r, order, res).step = "eom"
              THEN [raw EXCEPT ![id] = @ \o r.body] ELSE raw

DoVerify(id, r, order, res) ==
  /\ d[id] = "set"
  /\ eng[id].hdrs = <<>>
  /\ HelperStep(id, "Verify", r, Verify(eng[id], r, order, res))
  /\ raw' = IF Verify(eng[id], r, order, res).step = "eom"
              THEN [raw EXCEPT ![id] = @ \o r.body] ELSE raw

\* ----------------------------------------------------- inputs of the caller
\* A signing run over a whole message, through the wrapper.
SignRun(hc, bc, hdrs, body) ==
  LET h == FeedHeaders(NewSigner(hc, bc, WholeBody), hdrs, <<>>)
      b == Body(Eoh(h.e).e, body)
  IN GetSigHdr(Eom(b.e, "good").e).text

SampleHdrs == <<Hdr("From", "x"), Hdr("To", "y")>>
SampleBody == <<"a", CRLF>>

\* The signature header of the sample message, per canonicalization pair.
SampleSig == [hc \in Modes, bc \in Modes |-> SignRun(hc, bc, SampleHdrs, SampleBody)]

\* A signature header that lost its bh tag.
NotBh(tv) == tv[1] # "bh"
BrokenSig(tags) == SelectSeq(tags, NotBh)

\* The lines a caller hands to Header.  A verifier is also handed the sample
\* message's signature header, made under the signer's canonicalization
\* pair, and a malformed one.
SignerLines == {Hdr("From", "x"), Hdr("To", "y"), EmptyLine, BadLine}
LinesFor(id) ==
  IF id = "s" THEN SignerLines
  ELSE SignerLines
       \cup {SigLine(SampleSig[eng["s"].hc, eng["s"].bc]),
             SigLine(BrokenSig(SampleSig[CanonRELAXED, CanonRELAXED]))}

Message(hdrs, body) == [bad |-> FALSE, hdrs |-> hdrs, body |-> body]
Unreadable == [bad |-> TRUE, hdrs |-> <<>>, body |-> <<>>]

\* The messages handed to the helpers, each with an order of its header keys.
HelperMsgs ==
  {Message(h, b) : h \in SeqsUpTo(MsgLines, MaxHdrs), b \in {<<>>, SampleBody}}
  \cup {Unreadable}
  \cup {Message(Append(SampleHdrs, SigLine(SampleSig[CanonRELAXED, CanonRELAXED])),
                SampleBody)}

HelperInputs == {<<r, o>> : r \in HelperMsgs, o \in SeqsUpTo({"From", "To", SigName}, 3)}
HelperCalls == {x \in HelperInputs : x[2] \in KeyOrders(x[1].hdrs)}

HelperRes == {"good", "NOKEY", "TIMEOUT"}
FreeStatus == {StatusOK, StatusINTERNAL}

\* ------------------------------------------- one caller, any call, any order
CallHeader == \E line \in LinesFor(active) : DoHeader(active, line)
CallEoh == DoEoh(active)
CallBody == \E data \in Chunks : DoBody(active, data)
CallEom == \E res \in Resolutions : DoEom(active, res)
CallGetSigHdr == DoGetSigHdr(active)
CallDestroy == \E free \in FreeStatus : DoDestroy(active, free)
CallSign == \E x \in HelperCalls, res \in HelperRes : DoSign(active, x[1], x[2], res)
CallVerify == \E x \in HelperCalls, res \in HelperRes : DoVerify(active, x[1], x[2], res)

Next ==
  \/ CallHeader
  \/ CallEoh
  \/ CallBody
  \/ CallEom
  \/ CallGetSigHdr
  \/ CallDestroy
  \/ CallSign
  \/ CallVerify

Init == InitWith(Sessions)

Spec == Init /\ [][Next]_vars

\* --------------------------------- sign a message, then verify what was sent
\* The caller signs one message with session s in the order of the protocol,
\* takes the signature header, destroys s, and then feeds session v a
\* message made of lines of the signed message and the signature header,
\* with a body of its choice.
NonEmptyChunks == Chunks \ {<<>>}
RTResolutions == {"good", "other", "NOKEY"}

Signing == active = "rt" /\ d["s"] = "set"
Verifying == active = "rt" /\ d["s"] = "nil" /\ sighdr # <<>>

\* The lines of the signed message not yet handed to the verifier.
Unsent(line) == Count(eng["v"].hdrs, line) < Count(eng["s"].hdrs, line)

RTSignHeader == Signing /\ Collecting(eng["s"]) /\ \E line \in MsgLines : DoHeader("s", line)
RTSignEoh == Signing /\ eng["s"].state = "CollectingHeaders" /\ DoEoh("s")
RTSignBody ==
  Signing /\ eng["s"].state = "BodyPhase" /\ \E data \in NonEmptyChunks : DoBody("s", data)
RTSignEom == Signing /\ eng["s"].state = "BodyPhase" /\ DoEom("s", "good")
RTGetSigHdr == Signing /\ eng["s"].state = "Finalized" /\ sighdr = <<>> /\ DoGetSigHdr("s")
RTDestroy == Signing /\ sighdr # <<>> /\ DoDestroy("s", StatusOK)

RTVerHeader ==
  /\ Verifying
  /\ Collecting(eng["v"])
  /\ \/ \E line \in MsgLines : Unsent(line) /\ DoHeader("v", line)
     \/ SigLines(eng["v"].hdrs) = <<>> /\ DoHeader("v", SigLine(sighdr))
RTVerEoh == Verifying /\ eng["v"].state = "CollectingHeaders" /\ DoEoh("v")
RTVerBody ==
  Verifying /\ eng["v"].state = "BodyPhase" /\ \E data \in NonEmptyChunks : DoBody("v", data)
RTVerEom ==
  Verifying /\ eng["v"].state = "BodyPhase" /\ \E res \in RTResolutions : DoEom("v", res)

NextRT ==
  \/ RTSignHeader
  \/ RTSignEoh
  \/ RTSignBody
  \/ RTSignEom
  \/ RTGetSigHdr
  \/ RTDestroy
  \/ RTVerHeader
  \/ RTVerEoh
  \/ RTVerBody
  \/ RTVerEom

InitRT == InitWith({"rt"})

SpecRT == InitRT /\ [][NextRT]_vars

\* The same run with a signer created with any of these values of bytesToSign.
SignLimits == {WholeBody, 1, 2}

InitLim == InitLimited({"rt"}, SignLimits)

SpecLim == InitLim /\ [][NextRT]_vars

\* ------------------------------------- two threads sharing one Dkim struct
\* Both threads call methods of the same *Dkim (session s).  Header, Eoh,
\* Body, Eom and GetSigHdr read d.dkim and enter the engine without taking
\* d.mtx; only Destroy locks.  A call is two steps, entering the engine with
\* the pointer it read and returning from it; Destroy is the steps of its
\* body.  The finalizer set by NewSigner and NewVerifier runs Destroy too.
ConcId == "s"
ConcOps == {"Header", "Eoh", "Body", "Eom", "GetSigHdr"}
ConcLine == Hdr("From", "x")
ConcData == <<"a">>

CallResult(o, e) ==
  CASE o = "Header" -> Header(e, ConcLine)
    [] o = "Eoh" -> Eoh(e)
    [] o = "Body" -> Body(e, ConcData)
    [] o = "Eom" -> Eom(e, "good")
    [] OTHER -> Result(e, GetSigHdr(e).stat)

\* Thread t is executing engine code on the handle.
InEngine(t) == pc[t] \in {"in", "freeing"}

\* Header/Eoh/Body/Eom/GetSigHdr, first half: read d.dkim, call into C.
ConcEnter(t, o) ==
  /\ pc[t] = "idle"
  /\ d[ConcId] = "set"
  /\ (o = "Header" /\ Collecting(eng[ConcId])) => Len(eng[ConcId].hdrs) < MaxHdrs
  /\ o = "Body" => Len(raw[ConcId]) < MaxBody
  /\ pc' = [pc EXCEPT ![t] = "in"]
  /\ cur' = [cur EXCEPT ![t] = o]
  /\ UNCHANGED <<d, eng, raw, ret, sighdr, frees, active, lib, mtx>>

\* Second half: the C function returns.  A call that ran alone on a live
\* handle has its effect.  One that overlapped another thread's engine code,
\* or ran on a freed handle, is a data race or a use after free: its update
\* may be lost, and on a freed handle it may crash.
ConcLeave(t, lost, crash) ==
  /\ pc[t] = "in"
  /\ LET r == CallResult(cur[t], eng[ConcId])
         alone == \A u \in Threads \ {t} : ~InEngine(u)
         live == frees[ConcId] = 0
     IN /\ lost => ~(alone /\ live)
        /\ crash => ~live
        /\ eng' = IF lost \/ crash THEN eng ELSE [eng EXCEPT ![ConcId] = r.e]
        /\ raw' = IF cur[t] = "Body" /\ ~lost /\ ~crash /\ r.stat = StatusOK
                    THEN [raw EXCEPT ![ConcId] = @ \o ConcData] ELSE raw
        /\ ret' = Returned(cur[t], "conc", r.stat, crash, <<>>, NoMsg)
  /\ pc' = [pc EXCEPT ![t] = "idle"]
  /\ cur' = [cur EXCEPT ![t] = "none"]
  /\ UNCHANGED <<d, sighdr, frees, active, lib, mtx>>

\* Destroy: d.mtx.Lock()
DestroyLock(t) ==
  /\ pc[t] = "idle"
  /\ mtx = 0
  /\ mtx' = t
  /\ pc' = [pc EXCEPT ![t] = "locked"]
  /\ cur' = [cur EXCEPT ![t] = "Destroy"]
  /\ UNCHANGED <<d, eng, raw, ret, sighdr, frees, active, lib>>

\* Destroy: if d.dkim != nil
DestroyCheck(t) ==
  /\ pc[t] = "locked"
  /\ pc' = [pc EXCEPT ![t] = IF d[ConcId] = "nil" THEN "ret_nil" ELSE "freeing"]
  /\ UNCHANGED <<d, eng, raw, ret, sighdr, frees, active, lib, cur, mtx>>

\* Destroy: stat := dkim_free(d.dkim); if stat != StatusOK { return stat }
DestroyFree(t, free) ==
  /\ pc[t] = "freeing"
  /\ frees' = IF free = StatusOK THEN [frees EXCEPT ![ConcId] = @ + 1] ELSE frees
  /\ pc' = [pc EXCEPT ![t] = IF free = StatusOK THEN "clear" ELSE "ret_fail"]
  /\ UNCHANGED <<d, eng, raw, ret, sighdr, active, lib, cur, mtx>>

DestroyClear_skip(t) ==
  /\ pc[t] = "clear"
  /\ pc' = [pc EXCEPT ![t] = "ret_free"]
  /\ UNCHANGED <<d, eng, raw, ret, sighdr, frees, active, lib, cur, mtx>>

\* Destroy: d.dkim = nil
DestroyClear(t) ==
  /\ pc[t] = "clear"
  /\ d' = [d EXCEPT ![ConcId] = "nil"]
  /\ pc' = [pc EXCEPT ![t] = "ret_free"]
  /\ UNCHANGED <<eng, raw, ret, sighdr, frees, active, lib, cur, mtx>>

\* Destroy: return, with the deferred d.mtx.Unlock()
DestroyReturn(t) ==
  /\ pc[t] \in {"ret_nil", "ret_free", "ret_fail"}
  /\ mtx' = 0
  /\ ret' = Returned("Destroy", IF pc[t] = "ret_nil" THEN "nil" ELSE "free",
                     IF pc[t] = "ret_fail" THEN StatusINTERNAL ELSE StatusOK,
                     FALSE, <<>>, NoMsg)
  /\ pc' = [pc EXCEPT ![t] = "idle"]
  /\ cur' = [cur EXCEPT ![t] = "none"]
  /\ UNCHANGED <<d, eng, raw, sighdr, frees, active, lib>>

ThreadEnter == \E t \in Threads, o \in ConcOps : ConcEnter(t, o)
ThreadLeave == \E t \in Threads, lost \in BOOLEAN, crash \in BOOLEAN : ConcLeave(t, lost, crash)
ThreadLock == \E t \in Threads : DestroyLock(t)
ThreadCheck == \E t \in Threads : DestroyCheck(t)
ThreadFree == \E t \in Threads, free \in FreeStatus : DestroyFree(t, free)
ThreadClear == \E t \in Threads : DestroyClear(t)
ThreadReturn == \E t \in Threads : DestroyReturn(t)

NextConc ==
  \/ ThreadEnter
  \/ ThreadLeave
  \/ ThreadLock
  \/ ThreadCheck
  \/ ThreadFree
  \/ ThreadClear
  \/ ThreadReturn

InitConc == InitWith({"cc"})

SpecConc == InitConc /\ [][NextConc]_vars

\* ------------------------------------------ one signer, bodies of any shape
\* The caller drives the signing session s through the protocol and hands it
\* a body of its choice, tabs and blank lines included, in chunks of its
\* choice (the empty chunk too).
CanonBytes == {"a", SP, TAB, CRLF}
CanonChunks == SeqsUpTo(CanonBytes, MaxCanonChunk)

Canonizing == active = "cn" /\ d["s"] = "set"

CnHeader == Canonizing /\ Collecting(eng["s"]) /\ \E line \in CanonLines : DoHeader("s", line)
CnEoh == Canonizing /\ eng["s"].state = "CollectingHeaders" /\ DoEoh("s")
CnBody ==
  /\ Canonizing
  /\ eng["s"].state = "BodyPhase"
  /\ \E data \in CanonChunks :
       /\ Len(raw["s"]) + Len(data) <= MaxCanonBody
       /\ BodyStep("s", data)
CnEom == Canonizing /\ eng["s"].state = "BodyPhase" /\ DoEom("s", "good")
CnGetSigHdr == Canonizing /\ eng["s"].state = "Finalized" /\ DoGetSigHdr("s")

NextCanon ==
  \/ CnHeader
  \/ CnEoh
  \/ CnBody
  \/ CnEom
  \/ CnGetSigHdr

InitCanon == InitGeneral({"cn"}, {WholeBody}, {GoodKey, BigKey})

SpecCanon == InitCanon /\ [][NextCanon]_vars

\* ------------------------------------- a verifier waiting for the resolver
\* One caller drives the verifying session v.  Eom is a blocking call in
\* three steps: the call enters the engine, which asks the key resolver; the
\* engine gets the resolver's answer, or the timeout set for the query runs
\* out; the call returns the status to the caller.
Waiting == active = "lv" /\ d["v"] = "set"
AtRest == Waiting /\ pc[1] = "idle"

LiveHeader == AtRest /\ Collecting(eng["v"]) /\ \E line \in LinesFor("v") : DoHeader("v", line)
LiveEoh == AtRest /\ eng["v"].state = "CollectingHeaders" /\ DoEoh("v")
LiveBody == AtRest /\ eng["v"].state = "BodyPhase" /\ \E data \in NonEmptyChunks : DoBody("v", data)

\* Dkim.Eom: the call into C.dkim_eom.
LiveEomCall ==
  /\ AtRest
  /\ eng["v"].state = "BodyPhase"
  /\ pc' = [pc EXCEPT ![1] = "resolving"]
  /\ cur' = [cur EXCEPT ![1] = "Eom"]
  /\ UNCHANGED <<d, eng, raw, ret, sighdr, frees, active, lib, mtx>>

\* The engine finishes end-of-message processing with the answer res.
Resolved(res) ==
  /\ pc[1] = "resolving"
  /\ LET r == Eom(eng["v"], res)
     IN /\ eng' = [eng EXCEPT !["v"] = r.e]
        /\ ret' = Returned("dkim_eom", "eom", r.stat, r.panic, <<>>, NoMsg)
  /\ pc' = [pc EXCEPT ![1] = "returning"]
  /\ UNCHANGED <<d, raw, sighdr, frees, active, lib, cur, mtx>>

\* The resolver answers in time.
ResolverAnswer == Waiting /\ \E res \in Resolutions \ {"TIMEOUT"} : Resolved(res)

\* The timeout of the query runs out.
ResolverTimeout == Waiting /\ Resolved("TIMEOUT")

\* An Eom that stays in the call.
LiveEomReturn_off == pc[1] = "off" /\ UNCHANGED vars

\* Dkim.Eom: return Status(...)
LiveEomReturn ==
  /\ Waiting
  /\ pc[1] = "returning"
  /\ ret' = [ret EXCEPT !.op = "Eom"]
  /\ pc' = [pc EXCEPT ![1] = "idle"]
  /\ cur' = [cur EXCEPT ![1] = "none"]
  /\ UNCHANGED <<d, eng, raw, sighdr, frees, active, lib, mtx>>

NextLive ==
  \/ LiveHeader
  \/ LiveEoh
  \/ LiveBody
  \/ LiveEomCall
  \/ ResolverAnswer
  \/ ResolverTimeout
  \/ LiveEomReturn

InitLive == InitWith({"lv"})

\* The timer of the query runs, and a call that has its result returns.
SpecLive ==
  /\ InitLive
  /\ [][NextLive]_vars
  /\ WF_vars(ResolverTimeout)
  /\ WF_vars(LiveEomReturn)

\* --------------------------------- two sessions of one library handle
\* Calls on the signing session s and the verifying session v, both made
\* from one Lib, in any interleaving, together with calls on the Lib itself.
\* Lib.Options and Lib.Close take lib.mtx, which no call on a session takes,
\* and a Dkim keeps no reference to its Lib: both run whatever the sessions
\* are doing.  The engine keeps the library's address in each session, so a
\* call on a session after Close reads released memory: it behaves as it
\* would have, or the process crashes.
Shared == active = "lb"

LibLines(id) == IF id = "s" THEN {Hdr("From", "x")}
                ELSE {Hdr("From", "x"), SigLine(SampleSig[eng["s"].hc, eng["s"].bc])}

\* Each line is handed to a session once.
Holds(hdrs, line) == \E i \in DOMAIN hdrs : hdrs[i] = line

\* A call on a session whose library is closed crashes.
AfterClose(id, o) ==
  /\ lib.lib = "nil"
  /\ d[id] = "set"
  /\ ret' = Returned(o, "closed", StatusINTERNAL, TRUE, <<>>, NoMsg)
  /\ UNCHANGED <<d, eng, raw, sighdr, frees, active, lib, pc, cur, mtx>>

LibHeader ==
  /\ Shared
  /\ \E id \in Sessions :
       \/ \E line \in LibLines(id) : ~Holds(eng[id].hdrs, line) /\ DoHeader(id, line)
       \/ AfterClose(id, "Header")

LibEoh == Shared /\ \E id \in Sessions : DoEoh(id) \/ AfterClose(id, "Eoh")

LibBody == Shared /\ \E id \in Sessions : DoBody(id, SampleBody) \/ AfterClose(id, "Body")

LibEom ==
  /\ Shared
  /\ \E id \in Sessions :
       \/ DoEom(id, "good")
       \/ AfterClose(id, "Eom")

LibGetSigHdr == Shared /\ \E id \in Sessions : DoGetSigHdr(id) \/ AfterClose(id, "GetSigHdr")

LibDestroy == Shared /\ \E id \in Sessions : DoDestroy(id, StatusOK) \/ AfterClose(id, "Destroy")

\* Lib.Options: lock lib.mtx, dkim_options, unlock.  On a closed handle the
\* engine is handed a null library.
Options(op, value) ==
  /\ lib' = IF lib.lib = "set" /\ op = SetOpt THEN [lib EXCEPT !.opts = value] ELSE lib
  /\ ret' = Returned("Options", "options", StatusOK, lib.lib = "nil", <<>>, NoMsg)
  /\ UNCHANGED <<d, eng, raw, sighdr, frees, active, pc, cur, mtx>>

\* Lib.Close, called or run as the finalizer of a Lib no longer referenced:
\* lock lib.mtx, dkim_close and clear the pointer if it is set, unlock.
Close ==
  /\ lib' = IF lib.lib # "nil" THEN [lib EXCEPT !.lib = "nil"] ELSE lib
  /\ ret' = Returned("Close", "close", StatusOK, FALSE, <<>>, NoMsg)
  /\ UNCHANGED <<d, eng, raw, sighdr, frees, active, pc, cur, mtx>>

LibOptions == Shared /\ \E op \in {GetOpt, SetOpt}, value \in OptValues : Options(op, value)
LibClose == Shared /\ Close

NextLib ==
  \/ LibHeader
  \/ LibEoh
  \/ LibBody
  \/ LibEom
  \/ LibGetSigHdr
  \/ LibDestroy
  \/ LibOptions
  \/ LibClose

InitLib == InitWith({"lb"})

SpecLib == InitLib /\ [][NextLib]_vars

\* ------------------------------------------------------------------ claims
AfterEom(id) == eng[id].state \in {"Finalized", "Error"}
NonSig(line) == ~IsSig(line)

\* The verifier was handed the signed message's header lines in their order,
\* with the signature header the signer produced somewhere among them.
HeadersIntact ==
  /\ SelectSeq(eng["v"].hdrs, NonSig) = eng["s"].hdrs
  /\ SigLines(eng["v"].hdrs) = <<SigLine(sighdr)>>

\* The result of the asymmetric check on a session's signature header.
SigOK(e) ==
  /\ SigLines(e.hdrs) # <<>>
  /\ SigSyntaxOK(SigLines(e.hdrs)[1].tags)
  /\ LET sigline == SigLines(e.hdrs)[1]
     IN VerifyPrim(ResolvedKey(e.res),
                   Digest(TagVal(sigline.tags, "a"), HeaderHashInput(e.hc, e.hdrs, sigline)),
                   TagVal(sigline.tags, "b"))

C7_PassedOnlyIf ==
  \A id \in Sessions :
    SigflagPASSED \in Flags(eng[id])
    => /\ SigOK(eng[id])
       /\ eng[id].bhres = "Match"
       /\ SigflagKEYLOADED \in Flags(eng[id])
       /\ SigflagPROCESSED \in Flags(eng[id])
       /\ eng[id].res \in {"good", "goodtest"}

C7_Witness ==
  /\ SigflagPASSED \in Flags(eng["v"])
  /\ eng["v"].state = "Finalized"
  /\ eng["v"].bhres = "Match"

\* A step in which Eom ran on the driven session in verify mode, directly
\* or as the last step of Verify.
VerifyEomRan ==
  /\ active \in Sessions
  /\ eng[active].mode = "verify"
  /\ eng'[active].mode = "verify"
  /\ ret'.step = "eom"
  /\ \/ ret'.op = "Eom" /\ eng[active].state = "BodyPhase"
     \/ ret'.op = "Verify"

OneByteChanged(b1, b2) ==
  /\ Len(b1) = Len(b2)
  /\ Cardinality({i \in 1..Len(b1) : b1[i] # b2[i]}) = 1

\* C9: a signed message whose body had one byte changed, in a place the
\* canonicalization does not erase, verifies with body hash Mismatch and
\* Passed unset, while Processed is set as it is for the unchanged message.
C9_Tamper ==
  (/\ Verifying
   /\ AfterEom("v")
   /\ HeadersIntact
   /\ OneByteChanged(raw["s"], raw["v"])
   /\ CanonBody(eng["s"].bc, eng["s"].limit, raw["s"])
        # CanonBody(eng["s"].bc, eng["s"].limit, raw["v"]))
  => /\ eng["v"].bhres = "Mismatch"
     /\ SigflagPASSED \notin Flags(eng["v"])
     /\ eng["v"].res = "good" => SigflagPROCESSED \in Flags(eng["v"])

C9_Witness ==
  /\ Verifying
  /\ eng["v"].state = "Finalized"
  /\ HeadersIntact
  /\ OneByteChanged(raw["s"], raw["v"])
  /\ eng["v"].res = "good"
  /\ eng["v"].bhres = "Mismatch"
  /\ SigflagPROCESSED \in Flags(eng["v"])
  /\ SigflagPASSED \notin Flags(eng["v"])

\* C10: verifying a message without a signature header reports NoSig, sets
\* none of the flags and exposes no signature object.
C10_NoSig ==
  [][(VerifyEomRan /\ SigLines(eng'[active].hdrs) = <<>>)
       => /\ ret'.stat = StatusNOSIG
          /\ Flags(eng'[active]) = {}
          /\ GetSignature(eng'[active]) = "nil"]_vars

C10_Witness ==
  /\ ret.op \in {"Eom", "Verify"}
  /\ ret.stat = StatusNOSIG
  /\ eng["v"].state = "Finalized"
  /\ Len(eng["v"].hdrs) >= 2
  /\ Flags(eng["v"]) = {}
  /\ GetSignature(eng["v"]) = "nil"

\* C2: Body before Eoh has succeeded, and Header after Eoh has succeeded,
\* return the protocol-misuse status and leave the session as it was.
C2_MisuseRejected ==
  [][(/\ active \in Sessions
      /\ \/ ret'.op = "Body" /\ eng[active].state \in {"Created", "CollectingHeaders"}
         \/ ret'.op = "Header" /\ eng[active].state \in {"BodyPhase", "Finalized"})
       => /\ ~ret'.panic
          /\ ret'.stat = StatusINVALID
          /\ eng' = eng
          /\ raw' = raw]_vars

\* C3: on a Finalized session every later Header, Eoh, Body or Eom fails
\* with the protocol-misuse status, the session stays Finalized and the
\* read accessors return what they returned before.
C3_FinalizedRejects ==
  [][(/\ active \in Sessions
      /\ eng[active].state = "Finalized"
      /\ ret'.op \in {"Header", "Eoh", "Body", "Eom"})
       => /\ ~ret'.panic
          /\ ret'.stat = StatusINVALID
          /\ eng'[active].state = "Finalized"
          /\ GetSigHdr(eng'[active]) = GetSigHdr(eng[active])
          /\ Flags(eng'[active]) = Flags(eng[active])
          /\ GetSignature(eng'[active]) = GetSignature(eng[active])]_vars

\* C4: Eoh is accepted only in CollectingHeaders.  On a session in Created
\* it fails with the protocol-misuse status and the session stays Created;
\* so does the Eoh that Sign and Verify call for a message without header
\* fields, and the helper returns that status from that step.
C4_EohOnlyCollecting ==
  [][(active \in Sessions) =>
       /\ (ret'.op = "Eoh" /\ eng[active].state = "CollectingHeaders")
            => (ret'.stat = StatusOK /\ eng'[active].state = "BodyPhase")
       /\ (ret'.op = "Eoh" /\ eng[active].state # "CollectingHeaders")
            => (ret'.stat = StatusINVALID /\ eng' = eng)
       /\ (/\ ret'.op \in {"Sign", "Verify"}
           /\ eng[active].state = "Created"
           /\ ret'.step \notin {"read", "header"}
           /\ eng'[active].hdrs = <<>>)
            => (/\ ret'.step = "eoh"
                /\ ret'.stat = StatusINVALID
                /\ eng' = eng)]_vars

C4_Witness ==
  /\ active \in Sessions
  /\ ret.op \in {"Sign", "Verify"}
  /\ ret.step = "eoh"
  /\ ret.stat = StatusINVALID
  /\ eng[active].state = "Created"
  /\ eng[active].hdrs = <<>>

\* C5: calls of two threads on one session are serialized: no two threads
\* execute engine code on the handle at the same time, and no Header, Eoh,
\* Body, Eom or GetSigHdr call is inside the engine while Destroy frees the
\* handle or after it has been freed.
C5_Serialized ==
  /\ Cardinality({t \in Threads : InEngine(t)}) <= 1
  /\ \A t \in Threads : pc[t] = "in" => frees[ConcId] = 0

\* C6: over any Destroy calls of the two threads, in any lifecycle state, the
\* handle is freed at most once, and a Destroy that starts after a successful
\* one returns OK without calling dkim_free or writing the handle.
C6_DestroyIdempotent ==
  [][/\ frees'[ConcId] <= 1
     /\ d'[ConcId] = "nil" =>
          /\ frees'[ConcId] = 1
          /\ \A t \in Threads : pc'[t] \notin {"freeing", "clear", "ret_fail"}
     /\ \A t \in Threads :
          (pc[t] = "ret_nil" /\ pc'[t] = "idle")
            => /\ ret'.op = "Destroy"
               /\ ret'.stat = StatusOK
               /\ d' = d /\ frees' = frees /\ eng' = eng]_vars

C6_Witness ==
  /\ active = "cc"
  /\ ret.op = "Destroy" /\ ret.step = "nil" /\ ret.stat = StatusOK
  /\ d[ConcId] = "nil" /\ frees[ConcId] = 1
  /\ eng[ConcId].state = "Finalized"

\* The content bytes of a body under a canonicalization: every byte but line
\* endings and, in relaxed mode, whitespace.
Content(bc, c) == c # CRLF /\ (bc = CanonRELAXED => c \notin WSP)

\* The number of line endings after the last content byte of a body.
TrailingCRLFs(bc, body) ==
  Cardinality({i \in 1..Len(body) :
                 /\ body[i] = CRLF
                 /\ \A j \in i..Len(body) : ~Content(bc, body[j])})

CRLFs(q) == Cardinality({i \in 1..Len(q) : q[i] = CRLF})

\* C11: the body digest depends only on the concatenation of the bytes handed
\* to Body, not on the split into calls: after every Body call the session
\* holds what one Body call with all the bytes so far gives, line endings
\* that may be trailing blank lines are held back from the digest until
\* content follows, and Eom drops the ones still held back.
C11_ChunkSplit ==
  [][(/\ active = "cn"
      /\ eng["s"].state = "BodyPhase"
      /\ ret'.op \in {"Body", "Eom"})
       => LET e == eng'["s"]
              all == raw'["s"]
              start == [eng["s"] EXCEPT !.acc = EmptyAcc]
              once == IF all = <<>> THEN start ELSE Body(start, all).e
          IN /\ ~ret'.panic
             /\ ret'.stat = StatusOK
             /\ ret'.op = "Body" =>
                  /\ e.acc = once.acc
                  /\ e.acc.crlf = TrailingCRLFs(e.bc, all)
                  /\ CRLFs(e.acc.out) = CRLFs(all) - TrailingCRLFs(e.bc, all)
             /\ ret'.op = "Eom" =>
                  /\ e.bh = Eom(once, "good").e.bh
                  /\ e.bh = Digest(e.alg, IF once.acc.out = <<>> THEN <<>>
                                          ELSE once.acc.out \o <<CRLF>>)]_vars

\* The first n bytes of the canonical form of a whole body, all of them when
\* n is the value for the whole body.
FirstCanon(bc, n, body) == Take(CanonBody(bc, WholeBody, body), n)

\* The body the verifier got is the signed body with bytes added at its end.
Extended == 
  /\ Len(raw["v"]) > Len(raw["s"])
  /\ SubSeq(raw["v"], 1, Len(raw["s"])) = raw["s"]

\* C12: a signer created with bytesToSign = -1 hashes the whole canonical
\* body, one created with bytesToSign = N the first N canonical bytes; the
\* verifier reads l=N and hashes the same N bytes, so a body extended after
\* its first N canonical bytes still verifies with body hash Match.
C12_SignedLimit ==
  LET s == eng["s"]
      v == eng["v"]
      n == s.limit
  IN /\ n \in SignLimits
     /\ s.state = "Finalized" =>
          /\ s.bh = Digest(s.alg, FirstCanon(s.bc, n, raw["s"]))
          /\ HasTag(s.sig, "l") <=> n # WholeBody
          /\ n # WholeBody => TagVal(s.sig, "l") = n
     /\ (Verifying /\ AfterEom("v") /\ HeadersIntact) =>
          /\ v.limit = n
          /\ v.bh = Digest(v.alg, FirstCanon(v.bc, n, raw["v"]))
          /\ (/\ n # WholeBody
              /\ Len(FirstCanon(s.bc, WholeBody, raw["s"])) >= n
              /\ FirstCanon(s.bc, n, raw["v"]) = FirstCanon(s.bc, n, raw["s"]))
             => /\ v.bhres = "Match"
                /\ v.res = "good" => SigflagPASSED \in Flags(v)

C12_Witness ==
  /\ Verifying
  /\ eng["v"].state = "Finalized"
  /\ HeadersIntact
  /\ eng["s"].limit = 1
  /\ raw["s"] # <<>>
  /\ Extended
  /\ eng["v"].bh = Digest(eng["v"].alg, <<Head(raw["s"])>>)
  /\ eng["v"].bhres = "Match"
  /\ SigflagPASSED \in Flags(eng["v"])

\* The header lines of a message as the helpers spell them: the message's
\* lines in their order, each name in the spelling of the parsed header.
AsReceived(hdrs) == [i \in 1..Len(hdrs) |-> [hdrs[i] EXCEPT !.name = MIMEKey(@)]]

\* C13: the session records the header lines in the order of arrival, and
\* the Sign and Verify helpers hand the header fields of the message to
\* Header in the order of the message, so that the recorded sequence is the
\* message's header, same-named and differently-named lines alike.
C13_HeaderOrder ==
  [][(active \in Sessions) =>
       /\ (ret'.op = "Header" /\ ~ret'.panic /\ ret'.stat = StatusOK)
            => /\ Len(eng'[active].hdrs) = Len(eng[active].hdrs) + 1
               /\ SubSeq(eng'[active].hdrs, 1, Len(eng[active].hdrs)) = eng[active].hdrs
       /\ (ret'.op \in {"Sign", "Verify"} /\ ret'.step \in {"eoh", "body", "eom", "sighdr"})
            => eng'[active].hdrs = AsReceived(ret'.arg.hdrs)]_vars

\* The session failed at Eom because the resolver was not available.
ResourceFailed(e) == e.state = "Error" /\ e.res = "TIMEOUT"

\* C14: a resolver that is unavailable or timed out during Eom leaves the
\* session in the error-terminal state.  Eom queries the resolver at most
\* once and nothing else queries it, and every later Header, Eoh, Body or Eom
\* call on the session fails and leaves it as it is.
C14_ResourceTerminal ==
  [][(active \in Sessions) =>
       LET e == eng[active]
           f == eng'[active]
       IN /\ f.lookups <= e.lookups + 1
          /\ f.lookups # e.lookups =>
               /\ ret'.op \in {"Eom", "Verify", "Sign"}
               /\ ret'.step \in {"eom", "sighdr"}
          /\ (ret'.step = "eom" /\ ret'.stat = StatusNORESOURCE)
               => /\ ResourceFailed(f)
                  /\ f.lookups = e.lookups + 1
                  /\ Flags(f) = {}
          /\ (ResourceFailed(e) /\ ret'.op \in {"Header", "Eoh", "Body", "Eom"})
               => /\ ret'.panic \/ ret'.stat # StatusOK
                  /\ f = e]_vars

C14_Witness ==
  /\ active = "v"
  /\ ResourceFailed(eng["v"])
  /\ eng["v"].lookups = 1
  /\ ret.op = "Eom"
  /\ ~ret.panic
  /\ ret.stat = StatusINVALID

TagOrder == <<"v", "a", "c", "d", "s", "t", "x", "h", "l", "bh", "b">>
TagNames(tags) == [i \in 1..Len(tags) |-> tags[i][1]]

\* The tags are in the fixed order, each at most once, the optional ones
\* (expiration, body-length limit) present or not.
InTagOrder(tags) ==
  LET Present(n) == HasTag(tags, n)
  IN /\ TagNames(tags) = SelectSeq(TagOrder, Present)
     /\ \A n \in {"v", "a", "c", "d", "s", "t", "h", "bh", "b"} : Present(n)

\* C16: after a successful Eom on a signing session GetSigHdr returns OK and
\* a header value that starts with v=1 and lists its tags in the fixed order
\* version, algorithm, canonicalization, domain, selector, timestamp,
\* expiration (optional), signed headers, body-length limit (optional), body
\* hash, signature value.
C16_TagOrder ==
  [][(/\ active = "cn"
      /\ eng["s"].mode = "sign"
      /\ eng["s"].state = "Finalized"
      /\ ret'.op = "GetSigHdr")
       => /\ ret'.stat = StatusOK
          /\ ret'.text # <<>>
          /\ Head(ret'.text) = <<"v", 1>>
          /\ InTagOrder(ret'.text)
          /\ TagVal(ret'.text, "b") # NoB]_vars

\* A session in progress: it holds header lines or body, and no result yet.
InProgress(id) == d[id] = "set" /\ eng[id].state \in {"CollectingHeaders", "BodyPhase"}

Touched(id) == eng'[id] # eng[id] \/ raw'[id] # raw[id] \/ d'[id] # d[id] \/ frees'[id] # frees[id]

\* A step changes one session at most.
OneSession == \A id \in Sessions : Touched(id) => \A o \in Sessions \ {id} : ~Touched(o)

\* C17: sessions of one library handle do not interfere: a call on one
\* leaves the other's lifecycle state, digests and outcome as they were, and
\* the library's configuration is not changed (by Lib.Options with SetOpt,
\* or by Lib.Close) while a session is in progress.
C17_NoInterference ==
  [][/\ OneSession
     /\ (\E id \in Sessions : InProgress(id)) => lib' = lib]_vars

C17_SessionsApart == [][OneSession]_vars

\* A body without content: empty, or blank lines only.
Blank(bc, body) == \A i \in 1..Len(body) : ~Content(bc, body[i])

\* A body without the line endings at its end.
RECURSIVE NoTrailingCRLF(_)
NoTrailingCRLF(body) ==
  IF body # <<>> /\ body[Len(body)] = CRLF
    THEN NoTrailingCRLF(SubSeq(body, 1, Len(body) - 1))
  ELSE body

\* The canonical body a finished session hashed.
Hashed(id) == eng[id].bh[2]

\* C18: body canonicalization, simple and relaxed, removes every trailing
\* empty line: the canonical body is empty for a body that is empty or all
\* blank, and ends with exactly one CRLF otherwise; in simple mode it is the
\* body up to its last content with one CRLF, so "a\r\n\r\n\r\n" gives
\* "a\r\n".
C18_TrailingLines ==
  (active = "cn" /\ eng["s"].state = "Finalized") =>
    LET bc == eng["s"].bc
        c == Hashed("s")
        body == raw["s"]
    IN /\ eng["s"].bh = Digest(eng["s"].alg, c)
       /\ Blank(bc, body) <=> c = <<>>
       /\ c # <<>> => /\ Len(c) >= 2
                      /\ c[Len(c)] = CRLF
                      /\ c[Len(c) - 1] # CRLF
       /\ (bc = CanonSIMPLE /\ ~Blank(bc, body)) => c = NoTrailingCRLF(body) \o <<CRLF>>
       /\ body = <<"a", CRLF, CRLF, CRLF>> => c = <<"a", CRLF>>

C18_Witness ==
  /\ active = "cn"
  /\ eng["s"].state = "Finalized"
  /\ raw["s"] = <<"a", CRLF, CRLF, CRLF>>
  /\ Hashed("s") = <<"a", CRLF>>

\* The lines of a body, begun the bytes of the line it starts in; a last line
\* without line ending counts when it has bytes.
RECURSIVE SplitLines(_, _)
SplitLines(body, begun) ==
  IF body = <<>> THEN (IF begun = <<>> THEN <<>> ELSE <<begun>>)
  ELSE IF Head(body) = CRLF THEN <<begun>> \o SplitLines(Tail(body), <<>>)
  ELSE SplitLines(Tail(body), Append(begun, Head(body)))

\* A line without the whitespace at its end.
RECURSIVE StripEnd(_)
StripEnd(line) ==
  IF line # <<>> /\ line[Len(line)] \in WSP
    THEN StripEnd(SubSeq(line, 1, Len(line) - 1))
  ELSE line

\* A line with every run of whitespace replaced by one space.
RECURSIVE Collapse(_)
Collapse(line) ==
  IF line = <<>> THEN <<>>
  ELSE IF Head(line) \notin WSP THEN <<Head(line)>> \o Collapse(Tail(line))
  ELSE IF Len(line) > 1 /\ line[2] \in WSP THEN Collapse(Tail(line))
  ELSE <<SP>> \o Collapse(Tail(line))

RECURSIVE DropEmptyLines(_)
DropEmptyLines(ls) ==
  IF ls # <<>> /\ ls[Len(ls)] = <<>>
    THEN DropEmptyLines(SubSeq(ls, 1, Len(ls) - 1))
  ELSE ls

RECURSIVE JoinLines(_)
JoinLines(ls) == IF ls = <<>> THEN <<>> ELSE Head(ls) \o <<CRLF>> \o JoinLines(Tail(ls))

\* The relaxed form of a body, line by line.
RelaxedLines(body) ==
  LET ls == SplitLines(body, <<>>)
  IN JoinLines(DropEmptyLines([i \in DOMAIN ls |-> Collapse(StripEnd(ls[i]))]))

\* C20: relaxed body canonicalization replaces every run of whitespace in a
\* line by one space, removes the whitespace at the end of each line and
\* drops the empty lines at the end of the body: "a  b \r\nc\t\r\n\r\n"
\* gives "a b\r\nc\r\n".
C20_RelaxedBody ==
  /\ CanonBody(CanonRELAXED, WholeBody,
               <<"a", SP, SP, "b", SP, CRLF, "c", TAB, CRLF, CRLF>>)
       = <<"a", SP, "b", CRLF, "c", CRLF>>
  /\ (active = "cn" /\ eng["s"].state = "Finalized" /\ eng["s"].bc = CanonRELAXED)
       => Hashed("s") = RelaxedLines(raw["s"])

C20_Witness ==
  /\ active = "cn"
  /\ eng["s"].state = "Finalized"
  /\ eng["s"].bc = CanonRELAXED
  /\ raw["s"] = <<"a", SP, TAB, "a">>
  /\ Hashed("s") = <<"a", SP, "a", CRLF>>

\* The canonical header lines a finished signer signed, without the
\* signature header's own.
Signed(id) ==
  LET input == TagVal(eng[id].sig, "b").data[2]
  IN SubSeq(input, 1, Len(input) - 1)

\* A header value with every fold made a space.
Unfolded(val) == [i \in DOMAIN val |-> IF val[i] = FOLD THEN SP ELSE val[i]]

\* A value without the whitespace at its start.
RECURSIVE StripStart(_)
StripStart(val) == IF val # <<>> /\ Head(val) \in WSP THEN StripStart(Tail(val)) ELSE val

\* The relaxed form of a header line, step by step.
RelaxedLine(line) ==
  [name |-> Lower(line.name), gap |-> <<>>,
   val |-> Collapse(StripEnd(StripStart(Unfolded(line.val)))),
   eol |-> <<CRLF>>, tags |-> line.tags]

\* "Subject:  Hello   World  \r\n"
SubjectLine == Line("Subject", <<>>, <<SP, SP, "Hello", SP, SP, SP, "World", SP, SP>>, <<CRLF>>)
\* "subject:Hello World\r\n"
SubjectCanon == Line("subject", <<>>, <<"Hello", SP, "World">>, <<CRLF>>)

\* C19: relaxed header canonicalization lowercases the field name, removes
\* the whitespace before the colon, unfolds continuations, makes every run
\* of whitespace in the value one space, strips the whitespace at the ends
\* of the value and ends the line with CRLF; "Subject:  Hello   World  \r\n"
\* becomes "subject:Hello World\r\n", and canonicalizing a canonical line
\* changes nothing.
C19_RelaxedHeader ==
  /\ CanonHeader(CanonRELAXED, SubjectLine) = SubjectCanon
  /\ (active = "cn" /\ eng["s"].state = "Finalized" /\ eng["s"].hc = CanonRELAXED) =>
       LET hdrs == eng["s"].hdrs
           out == Signed("s")
       IN /\ Len(out) = Len(hdrs)
          /\ {out[i] : i \in DOMAIN out} = {RelaxedLine(hdrs[i]) : i \in DOMAIN hdrs}
          /\ \A i \in DOMAIN out :
               /\ out[i].gap = <<>>
               /\ out[i].eol = <<CRLF>>
               /\ \A j \in DOMAIN out[i].val :
                    /\ out[i].val[j] \notin {TAB, FOLD}
                    /\ out[i].val[j] = SP =>
                         /\ 1 < j /\ j < Len(out[i].val)
                         /\ out[i].val[j + 1] # SP
               /\ CanonHeader(CanonRELAXED, out[i]) = out[i]

C19_Witness ==
  /\ active = "cn"
  /\ eng["s"].state = "Finalized"
  /\ eng["s"].hc = CanonRELAXED
  /\ eng["s"].hdrs = <<SubjectLine, Line("To", <<SP, TAB>>, <<TAB, "y", FOLD, TAB, "z">>, <<>>)>>
  /\ Signed("s") = <<SubjectCanon, Line("to", <<>>, <<"y", SP, "z">>, <<CRLF>>)>>

\* What the calls of a helper give when made one after the other on the
\* engine, up to the first status that is not OK: the session, the status
\* and the step it ended with.
RECURSIVE DriveHeaders(_, _)
DriveHeaders(e, lines) ==
  IF lines = <<>> THEN Result(e, StatusOK)
  ELSE LET r == dkim_header(e, Head(lines))
       IN IF r.stat # StatusOK THEN r ELSE DriveHeaders(r.e, Tail(lines))

Ended(r, step) == [e |-> r.e, stat |-> r.stat, step |-> step]

Driven(e, lines, body, res) ==
  LET h == DriveHeaders(e, lines)
      eo == dkim_eoh(h.e)
      b == dkim_body(eo.e, body)
  IN IF h.stat # StatusOK THEN Ended(h, "header")
     ELSE IF eo.stat # StatusOK THEN Ended(eo, "eoh")
     ELSE IF b.stat # StatusOK THEN Ended(b, "body")
     ELSE Ended(dkim_eom(b.e, res), "eom")

\* The step is a call of a helper with a message that can be read.
HelperCalled == ret'.op \in {"Sign", "Verify"} /\ ~ret'.arg.bad

\* The call did what the steps in their order do, and no more.
InOrder ==
  \E order \in KeyOrders(ret'.arg.hdrs), res \in HelperRes :
    LET t == Driven(eng[active], FeedOrder(ret'.arg.hdrs, order), ret'.arg.body, res)
    IN /\ eng'[active] = t.e
       /\ t.stat # StatusOK =>
            /\ ret'.stat = t.stat
            /\ ret'.step = t.step
            /\ ret'.out = NoMsg
       /\ t.stat = StatusOK => ret'.step \in {"eom", "sighdr"}

\* C21: a helper drives its session in the order Header for each header
\* field, Eoh once, Body once, Eom once; it stops at the first step whose
\* status is not OK, returns that status and makes none of the later calls;
\* Sign then returns no message and does not call GetSigHdr.
C21_HelperSteps ==
  [][((active \in Sessions) /\ HelperCalled) => (~ret'.panic /\ InOrder)]_vars

\* C22: when the release of the handle fails inside Destroy, Destroy returns
\* that status and leaves the handle set, so that a later Destroy attempts
\* the release again; the handle is marked released only by a Destroy whose
\* release returned OK.
C22_FailedRelease ==
  [][(active \in Sessions) =>
       /\ (ret'.op = "Destroy" /\ d[active] = "set") =>
            /\ ret'.step = "free"
            /\ ret'.stat \in FreeStatus
            /\ ret'.stat # StatusOK => (d'[active] = "set" /\ frees' = frees)
            /\ ret'.stat = StatusOK =>
                 (d'[active] = "nil" /\ frees'[active] = frees[active] + 1)
       /\ d'[active] # d[active] =>
            /\ ret'.op = "Destroy"
            /\ ret'.step = "free"
            /\ ret'.stat = StatusOK]_vars

\* A Destroy whose release failed: the handle is still set and not freed.
C22_Witness ==
  /\ active \in Sessions
  /\ ret.op = "Destroy"
  /\ ret.step = "free"
  /\ ret.stat = StatusINTERNAL
  /\ d[active] = "set"
  /\ frees[active] = 0
  /\ eng[active].state = "BodyPhase"

\* How often a line is among header lines.
Times(hdrs, line) == Cardinality({i \in DOMAIN hdrs : hdrs[i] = line})

\* Sign returned a message.
SignedOK == ret'.op = "Sign" /\ ~ret'.panic /\ ret'.stat = StatusOK

\* C23: on success Sign returns every header line fed to the session, in
\* the order fed, then one added line "DKIM-Signature: " with the text
\* GetSigHdr returns, then an empty line and the body as it was read and
\* handed to Body: the body is unchanged and none of the lines read is
\* dropped, doubled or changed.
C23_SignedMessage ==
  [][((active \in Sessions) /\ SignedOK) =>
       LET fed == eng'[active].hdrs
           out == ret'.out
           msg == ret'.arg
       IN /\ ~out.nil
          /\ GetSigHdr(eng'[active]).stat = StatusOK
          /\ out.hdrs = Append(fed, SigLine(GetSigHdr(eng'[active]).text))
          /\ out.body = msg.body
          /\ raw'[active] = raw[active] \o msg.body
          /\ Len(fed) = Len(msg.hdrs)
          /\ \A i \in DOMAIN msg.hdrs :
               Times(fed, AsReceived(msg.hdrs)[i])
                 = Times(AsReceived(msg.hdrs), AsReceived(msg.hdrs)[i])]_vars

C23_Witness ==
  /\ active = "s"
  /\ ret.op = "Sign"
  /\ ret.stat = StatusOK
  /\ ~ret.panic
  /\ ret.arg.hdrs = <<Hdr("To", "y"), Hdr("To", "z")>>
  /\ ret.arg.body = SampleBody
  /\ ret.out.hdrs = <<Hdr("To", "y"), Hdr("To", "z"), SigLine(eng["s"].sig)>>
  /\ ret.out.body = SampleBody

====
